---------------------------- MODULE Spec2Model ----------------------------
(***************************************************************************)
(* A model of backend/api_server.py: the in-memory result cache with TTL,  *)
(* the request handlers that read and write it, and process_text.          *)
(*                                                                         *)
(* A text is a sequence of tokens (what word_tokenize yields); a request   *)
(* handler is a thread of the threaded Flask server, and every access to   *)
(* the shared dict or to the clock is one step of that thread.             *)
(***************************************************************************)
EXTENDS Integers, Sequences, FiniteSets, TLC

(***************************************************************************)
(* Bounds of the model.                                                    *)
(***************************************************************************)
\* requests the server accepts in one behaviour
MaxRequests == 3
\* advances of the clock between two readings of it, in one behaviour
MaxTicks == 2
\* the number of entries most_common is asked for: 100 at line 143, scaled
\* to documents of at most MaxWords tokens
TopWordsLimit == 2
\* the longest document handed to process_text on its own
MaxWords == 4

(***************************************************************************)
(* Program constants.                                                      *)
(***************************************************************************)
CACHE_TTL == 3600
\* n of process_text: the number of results asked of index.search
N == 10

None == "None"
\* None where a list is expected: a text, a key, a vector, an options mapping
NoSeq == <<None>>
\* None where a dict is expected
NoData == [none |-> TRUE]

(***************************************************************************)
(* The collaborators: tokens, stopwords, the embedding table.              *)
(***************************************************************************)
\* tokens for which str.isalpha() is true
AlphaTokens == {"the", "cat", "dog", "qzx"}
\* stopwords.words('english'), cut to the vocabulary
StopWords == {"the"}
\* what sanitize_text's regular expression <[^>]+> matches
TagTokens == {"<b>"}
\* tokens that end a sentence for sent_tokenize
SentenceEnd == {"."}
\* the keys of the pretrained table (glove-wiki-gigaword-100)
ModelVocab == {"the", "cat", "dog"}

\* word2vec_model[word]: the vector of a word of the table
ModelVector(word) ==
    CASE word = "the" -> <<1, 1>>
      [] word = "cat" -> <<0, 0>>
      [] word = "dog" -> <<3, 4>>
      [] OTHER -> <<0, 0>>

\* str.lower() on a token; the tokens of the vocabulary are lowercase
Lower(tok) == IF tok = "Cat" THEN "cat" ELSE tok

(***************************************************************************)
(* generate_cache_key                                                      *)
(***************************************************************************)
\* str(v) of an option's value
PyStr(v) == IF v THEN "True" ELSE "False"

RECURSIVE ItemsStr(_)
\* the items of a dict's repr, in insertion order
ItemsStr(options) ==
    IF options = << >> THEN << >>
    ELSE << <<"'", options[1][1], "': ", PyStr(options[1][2])>> >>
         \o ItemsStr(Tail(options))

\* str(options if options else {}): an options mapping is the sequence of
\* its (key, value) pairs in insertion order
StrOptions(options) == <<"{">> \o ItemsStr(options) \o <<"}">>

\* hashlib.sha256(...).hexdigest(), taken to be collision free: the digest
\* stands for the string it was computed from
Sha256(s) == <<"sha256", s>>

generate_cache_key(text, options) == Sha256(text \o StrOptions(options))

\* options.get('include_embeddings', True)
RECURSIVE OptionsGet(_, _, _)
OptionsGet(options, key, default) ==
    IF options = << >> THEN default
    ELSE LET rest == OptionsGet(Tail(options), key, default)
         IN  IF \E i \in 2..Len(options) : options[i][1] = key THEN rest
             ELSE IF options[1][1] = key THEN options[1][2] ELSE rest

(***************************************************************************)
(* process_text                                                            *)
(***************************************************************************)
NotTag(tok) == tok \notin TagTokens
\* sanitize_text
sanitize_text(text) == SelectSeq(text, NotTag)

\* get_word_embedding
get_word_embedding(word, model) ==
    IF model = None THEN NoSeq
    ELSE IF Lower(word) \in ModelVocab THEN ModelVector(Lower(word))
    ELSE IF word \in ModelVocab THEN ModelVector(word)
    ELSE NoSeq

RECURSIVE MapLower(_)
MapLower(s) == IF s = << >> THEN << >> ELSE <<Lower(Head(s))>> \o MapLower(Tail(s))

IsAlpha(tok) == tok \in AlphaTokens
NotStop(tok) == tok \notin StopWords

\* sent_tokenize: the number of sentences of a token sequence
RECURSIVE SentCount(_, _)
SentCount(s, open) ==
    IF s = << >> THEN (IF open THEN 1 ELSE 0)
    ELSE IF Head(s) \in SentenceEnd THEN 1 + SentCount(Tail(s), FALSE)
    ELSE SentCount(Tail(s), TRUE)

\* whether w occurs in the list s, as a number
CountOnce(w, s) == IF \E i \in 1..Len(s) : s[i] = w THEN 1 ELSE 0

\* the number of occurrences of w in the list s
Count(w, s) == Cardinality({i \in 1..Len(s) : s[i] = w})

Range(s) == {s[i] : i \in 1..Len(s)}

\* squared Euclidean distance, IndexFlatL2's metric
RECURSIVE L2sq(_, _)
L2sq(u, v) ==
    IF u = << >> THEN 0
    ELSE (u[1] - v[1]) * (u[1] - v[1]) + L2sq(Tail(u), Tail(v))

\* the distance faiss reports in a result slot it could not fill
\* (3.4028235e+38, the largest float32)
FltMax == 2147483647

\* list[idx] for a Python list and a Python index (0-based, negative from
\* the end)
PyIndex(list, idx) == IF idx < 0 THEN list[Len(list) + idx + 1] ELSE list[idx + 1]

\* index.search for query i (0-based) over the vectors it was built from:
\* n (label, distance) pairs by ascending distance, label -1 where the
\* index holds fewer than n vectors
Search(embeddings, i, n) ==
    LET k == Len(embeddings)
        d(p) == L2sq(embeddings[i + 1], embeddings[p + 1])
        Before(q, p) == d(q) < d(p) \/ (d(q) = d(p) /\ q < p)
        Rank(p) == Cardinality({q \in 0..(k - 1) : Before(q, p)})
        At(j) == CHOOSE p \in 0..(k - 1) : Rank(p) = j
    IN  [j \in 1..n |-> IF j - 1 < k THEN <<At(j - 1), d(At(j - 1))>>
                        ELSE <<-1, FltMax>>]

\* the keys of Counter(words), in the order of their first occurrence
RECURSIVE Distinct(_)
Distinct(s) ==
    IF s = << >> THEN << >>
    ELSE LET NotHead(x) == x # Head(s)
         IN  <<Head(s)>> \o Distinct(SelectSeq(Tail(s), NotHead))

\* Counter(words).most_common(n): the n most frequent words with their
\* counts, by descending count, equal counts in first-seen order
most_common(words, n) ==
    LET d == Distinct(words)
        k == Len(d)
        Before(i, j) == \/ Count(d[i], words) > Count(d[j], words)
                        \/ Count(d[i], words) = Count(d[j], words) /\ i < j
        Rank(i) == Cardinality({j \in 1..k : Before(j, i)})
        At(p) == CHOOSE i \in 1..k : Rank(i) = p - 1
    IN  [p \in 1..(IF n < k THEN n ELSE k) |->
            [word |-> d[At(p)], count |-> Count(d[At(p)], words)]]

RECURSIVE VecSum(_, _)
VecSum(vs, dim) ==
    IF vs = << >> THEN [c \in 1..dim |-> 0]
    ELSE LET rest == VecSum(Tail(vs), dim)
         IN  [c \in 1..dim |-> vs[1][c] + rest[c]]

\* process_text(text, include_embeddings) with the module's word2vec_model.
\* exc is the exception the call raises ("none": it returns result).
\* The rounded ratios (avg_words_per_sentence, avg_word_length, frequency)
\* are not part of this result.
process_text(text, include_embeddings, model) ==
    LET sanitized == sanitize_text(text)
        sentence_count == SentCount(sanitized, FALSE)
        words == SelectSeq(MapLower(sanitized), IsAlpha)
        word_count == Len(words)
        content_words == SelectSeq(words, NotStop)
        HasEmb(w) == get_word_embedding(w, model) # NoSeq
        IsContent(e) == e.word \in Range(content_words)
        top_words == SelectSeq(most_common(words, TopWordsLimit), IsContent)
        word_dictionary ==
            [w \in Range(words) |->
                [count |-> Count(w, words),
                 is_stopword |-> w \in StopWords,
                 keys |-> {"count", "frequency", "is_stopword"}
                          \cup (IF ~include_embeddings THEN {}
                                ELSE IF HasEmb(w) THEN {"embedding", "embedding_dim"}
                                ELSE {"embedding", "embedding_available"}),
                 embedding |-> IF include_embeddings THEN get_word_embedding(w, model)
                               ELSE NoSeq,
                 embedding_available |-> IF include_embeddings /\ ~HasEmb(w)
                                         THEN "False" ELSE None]]
        branch == include_embeddings /\ model # None
        words_list == SelectSeq(content_words, HasEmb)
        embeddings == [i \in 1..Len(words_list) |->
                          get_word_embedding(words_list[i], model)]
        has_doc == branch /\ embeddings # << >>
        neighbors(i) ==
            LET found == Search(embeddings, i, N)
            IN  [j \in 1..(N - 1) |->
                    [word |-> PyIndex(words_list, found[j + 1][1]),
                     distance |-> found[j + 1][2]]]
        words_neighbors ==
            [w \in Range(words_list) |->
                neighbors((CHOOSE i \in 1..Len(words_list) :
                              /\ words_list[i] = w
                              /\ \A j \in (i + 1)..Len(words_list) : words_list[j] # w) - 1)]
        result ==
            [keys |-> {"statistics", "top_words", "sentences", "word_dictionary",
                       "words_neighbors"}
                      \cup (IF has_doc THEN {"document_embedding", "embedding_coverage"}
                            ELSE {}),
             statistics |-> [word_count |-> word_count,
                             unique_word_count |-> Cardinality(Range(words)),
                             sentence_count |-> sentence_count,
                             content_word_count |-> Len(content_words),
                             stopword_count |-> word_count - Len(content_words)],
             top_words |-> top_words,
             word_dictionary |-> word_dictionary,
             words_neighbors |-> words_neighbors,
             \* the mean, as the sum of the vectors and their number
             document_embedding |->
                 IF has_doc THEN <<VecSum(embeddings, Len(embeddings[1])), Len(embeddings)>>
                 ELSE NoSeq,
             \* the ratio before round(., 2), as numerator and denominator
             embedding_coverage |->
                 IF has_doc THEN <<Len(words_list), Len(content_words)>> ELSE NoSeq]
    IN  \* line 180 reads embeddings, bound only inside the branch of line 167
        IF ~branch THEN [exc |-> "UnboundLocalError", result |-> NoData]
        \* line 183: index.add of an array of shape (0,)
        ELSE IF embeddings = << >> THEN [exc |-> "ValueError", result |-> NoData]
        ELSE [exc |-> "none", result |-> result]

(***************************************************************************)
(* The inputs of the model.                                                *)
(***************************************************************************)
Threads == {"t1", "t2"}

GoodText == <<"cat", "dog">>
Texts == {<< >>, GoodText, <<"the">>, <<"qzx">>}

OptionsSet == {<< >>,
               << <<"include_embeddings", TRUE>> >>,
               << <<"include_embeddings", FALSE>> >>}

\* the keys a client asks /api/cached for: one that requests can store and
\* one that no request stores
ClientKeys == {generate_cache_key(GoodText, << >>),
               generate_cache_key(<<"qzx">>, << >>)}

\* the time that passes in one advance of the clock
TickSteps == {1, CACHE_TTL}

\* The requests of the model. A body without 'text', a text that is no
\* string or is over 5MB, and an upload without a file or that is not UTF-8
\* (lines 240-249, 291-297, 303-309) are answered 400 before the cache is
\* touched, like the two invalid requests kept here.
Requests ==
    [op : {"process"}, text : {GoodText}, options : OptionsSet,
     file : {None}, key : {NoSeq}]
    \cup [op : {"process"}, text : Texts \ {GoodText}, options : {<< >>},
          file : {None}, key : {NoSeq}]
    \cup [op : {"file"}, text : {<< >>, GoodText}, options : {<< >>},
          file : {"sample.txt"}, key : {NoSeq}]
    \cup [op : {"file"}, text : {GoodText}, options : {<< >>},
          file : {"a.exe"}, key : {NoSeq}]
    \cup [op : {"get", "delete"}, text : {NoSeq}, options : {NoSeq},
          file : {None}, key : ClientKeys]
    \cup [op : {"health"}, text : {NoSeq}, options : {NoSeq},
          file : {None}, key : {NoSeq}]

(***************************************************************************)
(* The state.                                                              *)
(***************************************************************************)
VARIABLES
    word2vec_model, \* "loaded", or None when api.load failed
    now,            \* what time.time() returned last
    cache,          \* the dict, as the sequence of its entries in insertion order
    pc,             \* per thread: where its handler stands
    req,            \* per thread: the request it serves
    loc,            \* per thread: the handler's local variables
    resp,           \* per thread: the response it returned
    obs,            \* per thread: what the request has done so far (history)
    hist,           \* per key: "put" or "delete", the last of the two on it (history)
    nreq,           \* requests accepted so far
    nticks          \* advances of the clock so far

vars == <<word2vec_model, now, cache, pc, req, loc, resp, obs, hist, nreq, nticks>>

(***************************************************************************)
(* The dict.                                                               *)
(***************************************************************************)
\* key in cache
InCache(c, k) == \E i \in 1..Len(c) : c[i].key = k

\* no entry: what Lookup gives where cache[key] raises KeyError
NoEntry == [key |-> NoSeq, data |-> NoData, expires_at |-> -1]

\* cache[key]
Lookup(c, k) ==
    IF InCache(c, k) THEN c[CHOOSE i \in 1..Len(c) : c[i].key = k] ELSE NoEntry

\* cache[key] = entry
SetItem(c, e) ==
    IF InCache(c, e.key)
    THEN [i \in 1..Len(c) |-> IF c[i].key = e.key THEN e ELSE c[i]]
    ELSE Append(c, e)

RECURSIVE DelItem(_, _)
\* del cache[key], where key is in cache
DelItem(c, k) ==
    IF c = << >> THEN << >>
    ELSE IF Head(c).key = k THEN Tail(c)
    ELSE <<Head(c)>> \o DelItem(Tail(c), k)

(***************************************************************************)
(* Init                                                                    *)
(***************************************************************************)
NoReq == [op |-> None, text |-> NoSeq, options |-> NoSeq, file |-> None, key |-> NoSeq]
NoLoc == [cache_key |-> NoSeq, current_time |-> -1, iter_size |-> -1,
          expired_keys |-> << >>, t |-> -1, result |-> NoData, expires_at |-> -1]
NoResp == [status |-> 0, kind |-> None, error |-> None, data |-> NoData]
\* path: the orchestrator states the request went through; seen, swept: the
\* entries it found in the cache and has yet to act on; ret_t, ret_exp: the
\* time it compared with expires_at, and the expires_at of the entry whose
\* data it returned; mutated: it changed the cache; start_entry, start_last:
\* the entry of its key and hist of its key when it arrived; late: its first
\* reading of the clock was at or after start_entry's expires_at;
\* overwritten, deleted, removed: what other requests did to its key since
\* it arrived; sweep: it has entered clean_expired_cache
NoObs == [path |-> << >>, seen |-> NoEntry, swept |-> << >>, ret_t |-> -1,
          ret_exp |-> -1, mutated |-> FALSE,
          start_entry |-> NoEntry, start_last |-> None, late |-> FALSE,
          overwritten |-> FALSE, deleted |-> FALSE, removed |-> FALSE,
          sweep |-> FALSE]

AllKeys == {generate_cache_key(t, o) : t \in Texts, o \in OptionsSet} \cup ClientKeys

Init ==
    /\ word2vec_model \in {"loaded", None}
    /\ now = 0
    /\ cache = << >>
    /\ pc = [r \in Threads |-> "idle"]
    /\ req = [r \in Threads |-> NoReq]
    /\ loc = [r \in Threads |-> NoLoc]
    /\ resp = [r \in Threads |-> NoResp]
    /\ obs = [r \in Threads |-> NoObs]
    /\ hist = [k \in AllKeys |-> None]
    /\ nreq = 0
    /\ nticks = 0

(***************************************************************************)
(* The clock.                                                              *)
(***************************************************************************)
\* time.time() returns t: the last value it returned, or a later one
TimeIs(t) ==
    \/ /\ t = now
       /\ UNCHANGED <<now, nticks>>
    \/ /\ nticks < MaxTicks
       /\ t \in {now + d : d \in TickSteps}
       /\ now' = t
       /\ nticks' = nticks + 1

Times == {now} \cup {now + d : d \in TickSteps}

(***************************************************************************)
(* Responses.                                                              *)
(***************************************************************************)
\* jsonify({'error': ...}), status
ErrorResp(status, msg) == [status |-> status, kind |-> "error", error |-> msg, data |-> NoData]
\* jsonify(...) with status 200
OkResp(kind, data) == [status |-> 200, kind |-> kind, error |-> None, data |-> data]

IsProcessing(r) == req[r].op \in {"process", "file"}

\* the handler of thread r returns response rs; its locals are gone
Return(r, rs) ==
    /\ pc' = [pc EXCEPT ![r] = "returned"]
    /\ resp' = [resp EXCEPT ![r] = rs]
    /\ loc' = [loc EXCEPT ![r] = NoLoc]

\* obs of a request that returns: it has nothing left to act on
Closed(o) == [o EXCEPT !.seen = NoEntry, !.swept = << >>]

\* an exception leaves the handler of thread r: the except clause of a
\* processing endpoint answers 500 with its message, Flask answers 500 for
\* the other handlers
Raise(r, exc) ==
    /\ Return(r, ErrorResp(500, exc))
    /\ obs' = [obs EXCEPT ![r] = Closed([@ EXCEPT !.path =
                   IF IsProcessing(r) THEN Append(@, "FAILED") ELSE @])]

\* obs of a request whose first reading of the clock is t
FirstRead(o, t) ==
    [o EXCEPT !.late = o.start_entry # NoEntry /\ t >= o.start_entry.expires_at,
              !.sweep = TRUE]

\* where a handler goes on after clean_expired_cache()
AfterSweep(op) ==
    CASE op \in {"process", "file"} -> "check_in"
      [] op = "get" -> "get_in"
      [] op = "health" -> "health_len"

(***************************************************************************)
(* A thread that has returned its response takes the next request: the     *)
(* handler runs up to its first use of the cache.                          *)
(***************************************************************************)
\* allowed_file
allowed_file(filename) == filename \in {"sample.txt"}

\* process_text_endpoint, lines 251-252: the 400 it answers, or None
ProcessInvalid(rq) ==
    IF Len(rq.text) = 0 THEN "Text cannot be empty" ELSE None

\* process_file_endpoint, lines 299-300: the 400 it answers, or None
FileInvalid(rq) ==
    IF ~allowed_file(rq.file) THEN "File type not allowed" ELSE None

Invalid(rq) ==
    CASE rq.op = "process" -> ProcessInvalid(rq)
      [] rq.op = "file" -> FileInvalid(rq)
      [] OTHER -> None

\* the cache key of a request (NoSeq: it has none)
KeyOf(rq) ==
    IF rq.op \in {"process", "file"}
    THEN (IF Invalid(rq) = None THEN generate_cache_key(rq.text, rq.options) ELSE NoSeq)
    ELSE rq.key

\* obs after a request other than r stored (what = "overwritten"), deleted
\* through delete_cached ("deleted") or removed as expired ("removed") key k
Others(o, r, k, what) ==
    [s \in Threads |->
        IF s # r /\ pc[s] # "idle" /\ KeyOf(req[s]) = k
        THEN [o[s] EXCEPT ![what] = TRUE] ELSE o[s]]

\* thread r takes a request of the set S
Take(r, S) ==
    /\ pc[r] \in {"idle", "returned"}
    /\ nreq < MaxRequests
    /\ \E rq \in S :
        LET bad == Invalid(rq)
            k == KeyOf(rq)
            start == [NoObs EXCEPT
                        !.path = IF rq.op \notin {"process", "file"} THEN << >>
                                 ELSE IF bad = None THEN <<"RECEIVED", "FINGERPRINTED">>
                                 ELSE <<"RECEIVED", "FAILED">>,
                        !.start_entry = Lookup(cache, k),
                        !.start_last = IF k \in AllKeys THEN hist[k] ELSE None]
        IN  /\ req' = [req EXCEPT ![r] = rq]
            /\ obs' = [obs EXCEPT ![r] = start]
            /\ IF bad # None
               THEN Return(r, ErrorResp(400, bad))
               ELSE /\ pc' = [pc EXCEPT ![r] = IF rq.op = "delete" THEN "del_in"
                                               ELSE "sweep_begin"]
                    /\ loc' = [loc EXCEPT ![r] = [NoLoc EXCEPT !.cache_key = k]]
                    /\ resp' = [resp EXCEPT ![r] = NoResp]
    /\ nreq' = nreq + 1
    /\ UNCHANGED <<word2vec_model, now, cache, hist, nticks>>

Request(r) == Take(r, Requests)

(***************************************************************************)
(* clean_expired_cache                                                     *)
(***************************************************************************)
\* line 78 and the start of the iteration of line 79
SweepBegin(r) ==
    /\ pc[r] = "sweep_begin"
    /\ \E t \in Times :
        /\ TimeIs(t)
        /\ loc' = [loc EXCEPT ![r].current_time = t, ![r].iter_size = Len(cache)]
        /\ obs' = [obs EXCEPT ![r] = FirstRead(@, t)]
    /\ pc' = [pc EXCEPT ![r] = "sweep_iter"]
    /\ UNCHANGED <<word2vec_model, cache, req, resp, hist, nreq>>

\* current_time > value['expires_at']
Expired(current_time, entry) == current_time > entry.expires_at

IsExpiredAt(c, t, i) == Expired(t, c[i])

\* the list comprehension of lines 79-80 over the dict c
ExpiredKeys(c, t) ==
    LET idx == {i \in 1..Len(c) : IsExpiredAt(c, t, i)}
        pos(j) == CHOOSE i \in idx : Cardinality({h \in idx : h < i}) = j - 1
    IN  [j \in 1..Cardinality(idx) |-> c[pos(j)].key]

\* the iteration of lines 79-80 ends; a dict whose size changed under the
\* iterator raises RuntimeError
SweepCollect(r) ==
    /\ pc[r] = "sweep_iter"
    /\ IF Len(cache) # loc[r].iter_size
       THEN Raise(r, "RuntimeError")
       ELSE LET keys == ExpiredKeys(cache, loc[r].current_time)
            IN  /\ loc' = [loc EXCEPT ![r].expired_keys = keys,
                                      ![r].iter_size = -1,
                                      ![r].current_time = -1]
                /\ obs' = [obs EXCEPT ![r].swept =
                              [j \in 1..Len(keys) |-> Lookup(cache, keys[j])]]
                /\ pc' = [pc EXCEPT ![r] = IF keys = << >> THEN AfterSweep(req[r].op)
                                           ELSE "sweep_del"]
                /\ UNCHANGED resp
    /\ UNCHANGED <<word2vec_model, now, cache, req, hist, nreq, nticks>>

\* one pass of the loop of lines 81-82
SweepDelete(r) ==
    /\ pc[r] = "sweep_del"
    /\ LET k == Head(loc[r].expired_keys)
       IN  IF ~InCache(cache, k)
           THEN /\ Raise(r, "KeyError")
                /\ UNCHANGED <<cache, hist>>
           ELSE /\ cache' = DelItem(cache, k)
                /\ loc' = [loc EXCEPT ![r].expired_keys = Tail(@)]
                /\ obs' = Others([obs EXCEPT ![r].swept = Tail(@), ![r].mutated = TRUE],
                                 r, k, "removed")
                /\ UNCHANGED hist
                /\ pc' = [pc EXCEPT ![r] = IF Tail(loc[r].expired_keys) = << >>
                                           THEN AfterSweep(req[r].op) ELSE "sweep_del"]
                /\ UNCHANGED resp
    /\ UNCHANGED <<word2vec_model, now, req, nreq, nticks>>

(***************************************************************************)
(* process_text_endpoint and process_file_endpoint from the cache check on *)
(* (lines 261-280 and 322-343 are the same code).                          *)
(***************************************************************************)
\* cache_key in cache (the left operand of the and of line 261)
CheckIn(r) ==
    /\ pc[r] = "check_in"
    /\ IF InCache(cache, loc[r].cache_key)
       THEN /\ pc' = [pc EXCEPT ![r] = "check_time"]
            /\ obs' = [obs EXCEPT ![r].seen = Lookup(cache, loc[r].cache_key)]
       ELSE /\ pc' = [pc EXCEPT ![r] = "compute"]
            /\ obs' = [obs EXCEPT ![r].path = Append(@, "CACHE_MISS")]
    /\ UNCHANGED <<word2vec_model, now, cache, req, loc, resp, hist, nreq, nticks>>

\* time.time() of line 261
CheckTime(r) ==
    /\ pc[r] = "check_time"
    /\ \E t \in Times :
        /\ TimeIs(t)
        /\ loc' = [loc EXCEPT ![r].t = t]
    /\ pc' = [pc EXCEPT ![r] = "check_exp"]
    /\ UNCHANGED <<word2vec_model, cache, req, resp, obs, hist, nreq>>

\* time.time() < cache[cache_key]['expires_at']
Fresh(t, entry) == t < entry.expires_at

\* cache[cache_key]['expires_at'] and the comparison of line 261
CheckExp(r) ==
    /\ pc[r] = "check_exp"
    /\ LET e == Lookup(cache, loc[r].cache_key)
       IN  IF e = NoEntry THEN Raise(r, "KeyError")
           ELSE /\ pc' = [pc EXCEPT ![r] = IF Fresh(loc[r].t, e) THEN "hit_read"
                                           ELSE "compute"]
                /\ obs' = [obs EXCEPT ![r] =
                              IF Fresh(loc[r].t, e)
                              THEN [@ EXCEPT !.path = Append(@, "CACHE_HIT")]
                              ELSE Closed([@ EXCEPT !.path = Append(@, "CACHE_MISS")])]
                /\ UNCHANGED <<resp, loc>>
    /\ UNCHANGED <<word2vec_model, now, cache, req, hist, nreq, nticks>>

\* a hit that also renews the entry it serves
HitReadTouch(r) ==
    /\ pc[r] = "hit_read"
    /\ LET e == Lookup(cache, loc[r].cache_key)
       IN  IF e = NoEntry THEN Raise(r, "KeyError") /\ UNCHANGED cache
           ELSE /\ Return(r, OkResp("hit", e.data))
                /\ cache' = SetItem(cache, [e EXCEPT !.expires_at = loc[r].t + CACHE_TTL])
                /\ obs' = [obs EXCEPT ![r] = Closed([@ EXCEPT
                               !.path = Append(@, "DONE"),
                               !.ret_t = loc[r].t,
                               !.ret_exp = e.expires_at])]
    /\ UNCHANGED <<word2vec_model, now, req, hist, nreq, nticks>>

\* lines 262-265: cache[cache_key]['data'], answered with 'cached': True
HitRead(r) ==
    /\ pc[r] = "hit_read"
    /\ LET e == Lookup(cache, loc[r].cache_key)
       IN  IF e = NoEntry THEN Raise(r, "KeyError")
           ELSE /\ Return(r, OkResp("hit", e.data))
                /\ obs' = [obs EXCEPT ![r] = Closed([@ EXCEPT
                               !.path = Append(@, "DONE"),
                               !.ret_t = loc[r].t,
                               !.ret_exp = e.expires_at])]
    /\ UNCHANGED <<word2vec_model, now, cache, req, hist, nreq, nticks>>

\* line 268: process_text(text, include_embeddings=include_embeddings)
Compute(r) ==
    /\ pc[r] = "compute"
    /\ LET out == process_text(req[r].text,
                               OptionsGet(req[r].options, "include_embeddings", TRUE),
                               word2vec_model)
       IN  IF out.exc # "none"
           THEN Raise(r, out.exc)
           ELSE /\ loc' = [loc EXCEPT ![r].result = out.result]
                /\ obs' = [obs EXCEPT ![r].path = Append(@, "COMPUTED")]
                /\ pc' = [pc EXCEPT ![r] = "store_time"]
                /\ UNCHANGED resp
    /\ UNCHANGED <<word2vec_model, now, cache, req, hist, nreq, nticks>>

\* line 273: time.time() + CACHE_TTL
StoreTime(r) ==
    /\ pc[r] = "store_time"
    /\ \E t \in Times :
        /\ TimeIs(t)
        /\ loc' = [loc EXCEPT ![r].expires_at = t + CACHE_TTL]
    /\ pc' = [pc EXCEPT ![r] = "store"]
    /\ UNCHANGED <<word2vec_model, cache, req, resp, obs, hist, nreq>>

\* the answer of lines 276-280 without the store of lines 271-274
StoreLost(r) ==
    /\ pc[r] = "store"
    /\ obs' = [obs EXCEPT ![r] = Closed([@ EXCEPT !.path = @ \o <<"CACHED", "DONE">>])]
    /\ Return(r, OkResp("miss", loc[r].result))
    /\ UNCHANGED <<word2vec_model, now, cache, req, hist, nreq, nticks>>

\* lines 271-280: cache[cache_key] = {'data': ..., 'expires_at': ...}, then
\* the answer with 'cached': False and the cache_key
Store(r) ==
    /\ pc[r] = "store"
    /\ LET k == loc[r].cache_key
       IN  /\ cache' = SetItem(cache, [key |-> k, data |-> loc[r].result,
                                       expires_at |-> loc[r].expires_at])
           /\ hist' = [hist EXCEPT ![k] = "put"]
           /\ obs' = Others([obs EXCEPT ![r] = Closed([@ EXCEPT
                                 !.path = @ \o <<"CACHED", "DONE">>,
                                 !.mutated = TRUE])],
                            r, k, "overwritten")
    /\ Return(r, OkResp("miss", loc[r].result))
    /\ UNCHANGED <<word2vec_model, now, req, nreq, nticks>>

(***************************************************************************)
(* get_cached                                                              *)
(***************************************************************************)
\* line 401
GetIn(r) ==
    /\ pc[r] = "get_in"
    /\ IF ~InCache(cache, loc[r].cache_key)
       THEN /\ Return(r, ErrorResp(404, "Cache entry not found or expired"))
            /\ UNCHANGED obs
       ELSE /\ pc' = [pc EXCEPT ![r] = "get_time"]
            /\ obs' = [obs EXCEPT ![r].seen = Lookup(cache, loc[r].cache_key)]
            /\ UNCHANGED <<resp, loc>>
    /\ UNCHANGED <<word2vec_model, now, cache, req, hist, nreq, nticks>>

\* time.time() of line 404
GetTime(r) ==
    /\ pc[r] = "get_time"
    /\ \E t \in Times :
        /\ TimeIs(t)
        /\ loc' = [loc EXCEPT ![r].t = t]
    /\ pc' = [pc EXCEPT ![r] = "get_exp"]
    /\ UNCHANGED <<word2vec_model, cache, req, resp, obs, hist, nreq>>

\* time.time() >= cache[cache_key]['expires_at']
Stale(t, entry) == t >= entry.expires_at

\* cache[cache_key]['expires_at'] and the comparison of line 404
GetExp(r) ==
    /\ pc[r] = "get_exp"
    /\ LET e == Lookup(cache, loc[r].cache_key)
       IN  IF e = NoEntry THEN Raise(r, "KeyError")
           ELSE /\ pc' = [pc EXCEPT ![r] = IF Stale(loc[r].t, e) THEN "get_del"
                                           ELSE "get_read"]
                /\ UNCHANGED <<resp, obs, loc>>
    /\ UNCHANGED <<word2vec_model, now, cache, req, hist, nreq, nticks>>

\* lines 405-406
GetDel(r) ==
    /\ pc[r] = "get_del"
    /\ LET k == loc[r].cache_key
       IN  IF ~InCache(cache, k)
           THEN /\ Raise(r, "KeyError")
                /\ UNCHANGED <<cache, hist>>
           ELSE /\ cache' = DelItem(cache, k)
                /\ Return(r, ErrorResp(404, "Cache entry expired"))
                /\ obs' = Others([obs EXCEPT ![r] = Closed([@ EXCEPT !.mutated = TRUE])],
                                 r, k, "removed")
                /\ UNCHANGED hist
    /\ UNCHANGED <<word2vec_model, now, req, nreq, nticks>>

\* line 408
GetRead(r) ==
    /\ pc[r] = "get_read"
    /\ LET e == Lookup(cache, loc[r].cache_key)
       IN  IF e = NoEntry THEN Raise(r, "KeyError")
           ELSE /\ Return(r, OkResp("cached", e.data))
                /\ obs' = [obs EXCEPT ![r] = Closed([@ EXCEPT
                               !.ret_t = loc[r].t,
                               !.ret_exp = e.expires_at])]
    /\ UNCHANGED <<word2vec_model, now, cache, req, hist, nreq, nticks>>

(***************************************************************************)
(* delete_cached                                                           *)
(***************************************************************************)
\* line 413
DelIn(r) ==
    /\ pc[r] = "del_in"
    /\ IF ~InCache(cache, loc[r].cache_key)
       THEN /\ Return(r, ErrorResp(404, "Cache entry not found"))
            /\ UNCHANGED obs
       ELSE /\ pc' = [pc EXCEPT ![r] = "del_del"]
            /\ obs' = [obs EXCEPT ![r].seen = Lookup(cache, loc[r].cache_key)]
            /\ UNCHANGED <<resp, loc>>
    /\ UNCHANGED <<word2vec_model, now, cache, req, hist, nreq, nticks>>

\* lines 414-415
DelDel(r) ==
    /\ pc[r] = "del_del"
    /\ LET k == loc[r].cache_key
       IN  IF ~InCache(cache, k)
           THEN /\ Raise(r, "KeyError")
                /\ UNCHANGED <<cache, hist>>
           ELSE /\ cache' = DelItem(cache, k)
                /\ hist' = [hist EXCEPT ![k] = "delete"]
                /\ Return(r, OkResp("deleted", NoData))
                /\ obs' = Others([obs EXCEPT ![r] = Closed([@ EXCEPT !.mutated = TRUE])],
                                 r, k, "deleted")
    /\ UNCHANGED <<word2vec_model, now, req, nreq, nticks>>

(***************************************************************************)
(* health_check                                                            *)
(***************************************************************************)
\* lines 226-231
HealthLen(r) ==
    /\ pc[r] = "health_len"
    /\ Return(r, OkResp("health", [cache_size |-> Len(cache)]))
    /\ UNCHANGED <<word2vec_model, now, cache, req, obs, hist, nreq, nticks>>

(***************************************************************************)
(* The server.                                                             *)
(***************************************************************************)
Next ==
    \/ \E r \in Threads : Request(r)
    \/ \E r \in Threads : SweepBegin(r)
    \/ \E r \in Threads : SweepCollect(r)
    \/ \E r \in Threads : SweepDelete(r)
    \/ \E r \in Threads : CheckIn(r)
    \/ \E r \in Threads : CheckTime(r)
    \/ \E r \in Threads : CheckExp(r)
    \/ \E r \in Threads : HitRead(r)
    \/ \E r \in Threads : Compute(r)
    \/ \E r \in Threads : StoreTime(r)
    \/ \E r \in Threads : Store(r)
    \/ \E r \in Threads : GetIn(r)
    \/ \E r \in Threads : GetTime(r)
    \/ \E r \in Threads : GetExp(r)
    \/ \E r \in Threads : GetDel(r)
    \/ \E r \in Threads : GetRead(r)
    \/ \E r \in Threads : DelIn(r)
    \/ \E r \in Threads : DelDel(r)
    \/ \E r \in Threads : HealthLen(r)

Spec == Init /\ [][Next]_vars

(***************************************************************************)
(* One request on a quiet server, over every document of at most MaxWords  *)
(* tokens: what generate_cache_key and process_text compute.               *)
(***************************************************************************)
DocTokens == {"the", "cat", "dog", "qzx", "."}
Docs == UNION {[1..n -> DocTokens] : n \in 0..MaxWords}
\* the options of a client; the second key is one the server does not read
DocOptions == {<< >>,
               << <<"include_embeddings", TRUE>> >>,
               << <<"include_embeddings", FALSE>> >>,
               << <<"include_embeddings", TRUE>>, <<"verbose", TRUE>> >>,
               << <<"verbose", TRUE>>, <<"include_embeddings", TRUE>> >>}
DocRequests ==
    [op : {"process"}, text : Docs, options : DocOptions, file : {None}, key : {NoSeq}]
\* the thread that serves the request
Caller == "t1"

\* the first request of the server
FirstRequest ==
    /\ \A r \in Threads : pc[r] = "idle"
    /\ Take(Caller, DocRequests)

DocNext ==
    \/ FirstRequest
    \/ SweepBegin(Caller)
    \/ SweepCollect(Caller)
    \/ CheckIn(Caller)
    \/ Compute(Caller)
    \/ StoreTime(Caller)
    \/ Store(Caller)

DocSpec == Init /\ [][DocNext]_vars

(***************************************************************************)
(* The claims.                                                             *)
(***************************************************************************)
Returned(r) == pc[r] = "returned"
\* the request of thread r disabled the embeddings
Disabled(r) == ~OptionsGet(req[r].options, "include_embeddings", TRUE)
\* no other request stored, deleted or removed the key of r's request since
\* it arrived
Undisturbed(r) == ~obs[r].overwritten /\ ~obs[r].deleted /\ ~obs[r].removed
\* a result that holds only lexical statistics
StatisticsOnly(data) ==
    /\ data.keys \cap {"document_embedding", "embedding_coverage"} = {}
    /\ DOMAIN data.words_neighbors = {}

\* C1: a response that carries a cached payload (the cache hit of the two
\* processing endpoints, get_cached's 200) was decided on a reading of the
\* clock strictly less than the expires_at of the entry whose payload it
\* carries; at a reading equal to expires_at nothing is returned.
C1_PayloadOnlyBeforeExpiry ==
    \A r \in Threads :
        (Returned(r) /\ resp[r].kind \in {"hit", "cached"})
            => obs[r].ret_t < obs[r].ret_exp

\* C2: get_cached of a key whose entry R was there when the request arrived,
\* with no delete_cached and no store on the key since: while the clock is
\* before expires_at the answer is 200 with exactly R, and a request that
\* starts at or after expires_at is answered 404 and leaves the key out of
\* the cache.
C2_GetUntilExpiry ==
    \A r \in Threads :
        (/\ Returned(r) /\ req[r].op = "get"
         /\ obs[r].start_entry # NoEntry
         /\ ~obs[r].overwritten /\ ~obs[r].deleted)
            => /\ now < obs[r].start_entry.expires_at
                    => (resp[r].kind = "cached" /\ resp[r].data = obs[r].start_entry.data)
               /\ obs[r].late
                    => (resp[r].status = 404 /\ ~InCache(cache, req[r].key))

\* C3: a process request whose text and options were already stored, the
\* entry neither deleted nor removed nor expired up to the response, is
\* answered with cached = true and the stored payload, and process_text
\* does not run for it.
C3_SecondIsCached ==
    \A r \in Threads :
        (/\ Returned(r) /\ req[r].op = "process"
         /\ obs[r].start_entry # NoEntry
         /\ ~obs[r].deleted /\ ~obs[r].removed
         /\ now < obs[r].start_entry.expires_at)
            => /\ resp[r].kind = "hit"
               /\ resp[r].data = obs[r].start_entry.data
               /\ obs[r].path = <<"RECEIVED", "FINGERPRINTED", "CACHE_HIT", "DONE">>

\* C4: delete_cached answers 'deleted' or 404; for a key that is not in the
\* cache (and that nobody stores meanwhile) it answers 404 and changes
\* nothing; for a key that is in the cache and not expired (and that nobody
\* else removes) it answers 'deleted'; and a get_cached of a key whose last
\* store or deletion was a deletion is answered 404.
C4_Delete ==
    \A r \in Threads :
        /\ (Returned(r) /\ req[r].op = "delete")
            => /\ resp[r].kind = "deleted" \/ resp[r].status = 404
               /\ (obs[r].start_entry = NoEntry /\ ~obs[r].overwritten)
                    => (resp[r].status = 404 /\ ~obs[r].mutated)
               /\ (/\ obs[r].start_entry # NoEntry
                   /\ ~obs[r].deleted /\ ~obs[r].removed
                   /\ now < obs[r].start_entry.expires_at)
                    => resp[r].kind = "deleted"
        /\ (/\ Returned(r) /\ req[r].op = "get"
            /\ obs[r].start_last = "delete" /\ ~obs[r].overwritten)
            => resp[r].status = 404

\* C5: a processing request with an empty text (of an allowed file, for an
\* upload) is answered 400 and has not changed the cache.
C5_EmptyTextRejected ==
    \A r \in Threads :
        (/\ Returned(r) /\ IsProcessing(r)
         /\ req[r].text = << >>
         /\ req[r].op = "file" => allowed_file(req[r].file))
            => (resp[r].status = 400 /\ ~obs[r].mutated)

\* C6: while a request stands between its test of a key (key in cache, or
\* the collection of the expired keys) and its read or deletion of that key,
\* the entry of the key is the one it found: no other request's store or
\* deletion falls in between.
C6_MutualExclusion ==
    \A r \in Threads :
        /\ obs[r].seen # NoEntry => Lookup(cache, loc[r].cache_key) = obs[r].seen
        /\ \A j \in 1..Len(obs[r].swept) :
               Lookup(cache, loc[r].expired_keys[j]) = obs[r].swept[j]

PathHit == <<"RECEIVED", "FINGERPRINTED", "CACHE_HIT", "DONE">>
PathMiss == <<"RECEIVED", "FINGERPRINTED", "CACHE_MISS", "COMPUTED", "CACHED", "DONE">>
IsPrefix(p, q) == Len(p) <= Len(q) /\ \A i \in 1..Len(p) : p[i] = q[i]
Front(p) == SubSeq(p, 1, Len(p) - 1)

\* C7: a processing request goes through RECEIVED, FINGERPRINTED, then
\* CACHE_HIT, DONE or CACHE_MISS, COMPUTED, CACHED, DONE, or leaves that
\* path for FAILED before CACHED; one answered after a miss has its result
\* in the cache under its fingerprint when it answers (as long as no other
\* request touches the key), and one that fails has stored nothing.
C7_RequestPath ==
    \A r \in Threads :
        (pc[r] # "idle" /\ IsProcessing(r)) =>
            LET p == obs[r].path
            IN  /\ \/ IsPrefix(p, PathHit)
                   \/ IsPrefix(p, PathMiss)
                   \/ /\ p[Len(p)] = "FAILED"
                      /\ IsPrefix(Front(p), <<"RECEIVED", "FINGERPRINTED", "CACHE_HIT">>)
                         \/ IsPrefix(Front(p), <<"RECEIVED", "FINGERPRINTED", "CACHE_MISS">>)
                /\ Returned(r) => p[Len(p)] \in {"DONE", "FAILED"}
                /\ (Returned(r) /\ resp[r].status = 200) <=> p[Len(p)] = "DONE"
                /\ (Returned(r) /\ resp[r].kind = "miss") =>
                       /\ p = PathMiss
                       /\ Undisturbed(r) =>
                              Lookup(cache, KeyOf(req[r])).data = resp[r].data
                /\ p[Len(p)] = "FAILED" =>
                       /\ "CACHED" \notin Range(p)
                       /\ (Undisturbed(r) /\ InCache(cache, KeyOf(req[r]))) =>
                              Lookup(cache, KeyOf(req[r])) = obs[r].start_entry

\* a request answered after a miss, its result stored
C7_Witness ==
    \E r \in Threads :
        /\ Returned(r) /\ resp[r].kind = "miss" /\ obs[r].path = PathMiss
        /\ Lookup(cache, KeyOf(req[r])).data = resp[r].data

\* C8: a processing request with include_embeddings false that misses the
\* cache ends DONE with a result of lexical statistics only.
C8_EmbeddingsDisabled ==
    \A r \in Threads :
        (/\ Returned(r) /\ IsProcessing(r) /\ Invalid(req[r]) = None
         /\ Disabled(r)
         /\ Len(obs[r].path) >= 3 /\ obs[r].path[3] = "CACHE_MISS")
            => /\ resp[r].status = 200
               /\ StatisticsOnly(resp[r].data)

\* C9: with word2vec_model None a processing request with a valid text is
\* answered 200 with a result of lexical statistics only.
C9_ProviderUnavailable ==
    \A r \in Threads :
        (/\ word2vec_model = None
         /\ Returned(r) /\ IsProcessing(r) /\ Invalid(req[r]) = None
         /\ req[r].text # << >>)
            => /\ resp[r].status = 200
               /\ StatisticsOnly(resp[r].data)

\* the content words of a text that have an embedding
Resolvable(text) ==
    {i \in 1..Len(text) : /\ IsAlpha(Lower(text[i])) /\ NotStop(Lower(text[i]))
                          /\ get_word_embedding(Lower(text[i]), "loaded") # NoSeq}

\* C10: with the embeddings enabled and the table loaded, a request whose
\* text has no content word with an embedding and that misses the cache is
\* answered 200 with no document_embedding, no embedding_coverage and an
\* empty words_neighbors.
C10_NoResolvableEmbedding ==
    \A r \in Threads :
        (/\ word2vec_model = "loaded"
         /\ Returned(r) /\ req[r].op = "process" /\ Invalid(req[r]) = None
         /\ ~Disabled(r)
         /\ Resolvable(req[r].text) = {}
         /\ Len(obs[r].path) >= 3 /\ obs[r].path[3] = "CACHE_MISS")
            => /\ resp[r].status = 200
               /\ StatisticsOnly(resp[r].data)

(***************************************************************************)
(* The results of process_text.                                            *)
(***************************************************************************)
\* thread r holds a result that process_text returned
HasResult(r) == Returned(r) /\ resp[r].kind = "miss"
\* the number of vectors process_text put in the index for a text
IndexedCount(text) == Cardinality(Resolvable(text))
Min(a, b) == IF a < b THEN a ELSE b
\* the distances of a neighbor list never decrease
Ascending(list) ==
    \A j \in 1..(Len(list) - 1) : list[j].distance <= list[j + 1].distance

\* C11: in a result for a document with at least 2 indexed vectors, the
\* neighbor list of every word of words_neighbors has
\* min(N - 1, indexed_count - 1) entries, in non-decreasing order of
\* distance.
C11_NeighborListLength ==
    \A r \in Threads :
        (HasResult(r) /\ IndexedCount(req[r].text) >= 2) =>
            \A w \in DOMAIN resp[r].data.words_neighbors :
                /\ Len(resp[r].data.words_neighbors[w])
                       = Min(N - 1, IndexedCount(req[r].text) - 1)
                /\ Ascending(resp[r].data.words_neighbors[w])

\* C12: in a result for a document with exactly one content word that has
\* an embedding, the neighbor list of that word is empty.
C12_SingleWordNoNeighbors ==
    \A r \in Threads :
        (HasResult(r) /\ IndexedCount(req[r].text) = 1) =>
            \A w \in DOMAIN resp[r].data.words_neighbors :
                resp[r].data.words_neighbors[w] = << >>

\* the two options mappings hold the same key/value pairs
SameItems(o1, o2) == Len(o1) = Len(o2) /\ Range(o1) = Range(o2)

\* C13: two options mappings with the same key/value pairs give, for the
\* same text, the same fingerprint whatever the order of their keys; so
\* once a request has stored its result, a request with the same text and
\* any such options finds its key in the cache.
C13_KeyIgnoresInsertionOrder ==
    \A r \in Threads :
        (IsProcessing(r) /\ Invalid(req[r]) = None) =>
            \A o \in DocOptions :
                SameItems(o, req[r].options) =>
                    /\ generate_cache_key(req[r].text, o)
                           = generate_cache_key(req[r].text, req[r].options)
                    /\ (HasResult(r) /\ InCache(cache, KeyOf(req[r])))
                           => InCache(cache, generate_cache_key(req[r].text, o))

\* no other thread has served a request yet: r runs on its own
Alone(r) == \A s \in Threads \ {r} : pc[s] = "idle"
\* r has just come out of clean_expired_cache, which read the clock last
JustSwept(r) == pc[r] \in {"check_in", "get_in", "health_len"}

\* C14: after a sweep run at time now (by a request running on its own), no
\* entry with expires_at <= now is left in the cache, the entry with
\* expires_at = now included, and an entry with expires_at > now that was
\* there before is still there.
C14_SweepRemovesExpired ==
    \A r \in Threads :
        (Alone(r) /\ JustSwept(r)) =>
            /\ \A i \in 1..Len(cache) : cache[i].expires_at > now
            /\ (/\ obs[r].start_entry # NoEntry
                /\ obs[r].start_entry.expires_at > now)
                   => Lookup(cache, KeyOf(req[r])) = obs[r].start_entry

\* C15: in a result of process_text no entry of the neighbor list of a word
\* names that word.
C15_SelfExcluded ==
    \A r \in Threads :
        HasResult(r) =>
            \A w \in DOMAIN resp[r].data.words_neighbors :
                \A j \in 1..Len(resp[r].data.words_neighbors[w]) :
                    resp[r].data.words_neighbors[w][j].word # w

\* C16: in a result of process_text every key of words_neighbors is a key
\* of word_dictionary whose record has embedding_available = true, and a
\* word without an embedding is neither a key of words_neighbors nor named
\* in a neighbor list.
C16_NeighborsHaveEmbeddings ==
    \A r \in Threads :
        HasResult(r) =>
            LET wn == resp[r].data.words_neighbors
                wd == resp[r].data.word_dictionary
            IN  /\ \A w \in DOMAIN wn :
                       /\ w \in DOMAIN wd
                       /\ "embedding_available" \in wd[w].keys
                       /\ wd[w].embedding_available = "True"
                /\ \A w \in DOMAIN wd :
                       get_word_embedding(w, word2vec_model) = NoSeq =>
                           /\ w \notin DOMAIN wn
                           /\ \A v \in DOMAIN wn : \A j \in 1..Len(wn[v]) :
                                  wn[v][j].word # w

\* the sum of count over the records of the words of S in word_dictionary wd
RECURSIVE SumCount(_, _)
SumCount(wd, S) ==
    IF S = {} THEN 0
    ELSE LET w == CHOOSE x \in S : TRUE
         IN  wd[w].count + SumCount(wd, S \ {w})

\* C17: in a result of process_text, statistics.word_count is the sum of
\* count over all records of word_dictionary.
C17_WordCountIsSumOfCounts ==
    \A r \in Threads :
        HasResult(r) =>
            resp[r].data.statistics.word_count
                = SumCount(resp[r].data.word_dictionary,
                           DOMAIN resp[r].data.word_dictionary)

\* a result for a document with a repeated word and another word
C17_Witness ==
    \E r \in Threads :
        /\ HasResult(r)
        /\ Cardinality(DOMAIN resp[r].data.word_dictionary) >= 2
        /\ \E w \in DOMAIN resp[r].data.word_dictionary :
               resp[r].data.word_dictionary[w].count >= 2
        /\ resp[r].data.statistics.word_count >= 3

\* the alphabetic words of a text that are not stopwords, in order
ContentWords(text) ==
    SelectSeq(SelectSeq(MapLower(sanitize_text(text)), IsAlpha), NotStop)

\* C18: top_words of a result is the list of the TopWordsLimit most
\* frequent words that are not stopwords (all of them when there are
\* fewer), by descending count, equal counts in first-seen order.
C18_TopWords ==
    \A r \in Threads :
        HasResult(r) =>
            resp[r].data.top_words
                = most_common(ContentWords(req[r].text), TopWordsLimit)

\* thread r was answered from the cache
ServedFromCache(r) == Returned(r) /\ resp[r].kind \in {"hit", "cached"}

\* C19: when a request has been answered from the cache and no other
\* request has stored, deleted or removed its key since it arrived, the
\* entry of the key is the one that was there when it arrived, payload and
\* expires_at; and no stored payload holds a 'cached' or a 'filename' field.
C19_HitLeavesEntry ==
    /\ \A r \in Threads :
           (ServedFromCache(r) /\ Undisturbed(r))
               => Lookup(cache, KeyOf(req[r])) = obs[r].start_entry
    /\ \A i \in 1..Len(cache) :
           cache[i].data.keys \cap {"cached", "filename"} = {}

\* a request answered from the cache after the clock has advanced, the
\* entry it was served from still in the cache
C19_Witness ==
    \E r \in Threads :
        /\ ServedFromCache(r) /\ Undisturbed(r)
        /\ obs[r].start_entry # NoEntry
        /\ Lookup(cache, KeyOf(req[r])) = obs[r].start_entry
        /\ obs[r].ret_t + CACHE_TTL > obs[r].start_entry.expires_at

\* the positions of a handler after its first read or write of the cache
\* outside clean_expired_cache
AfterFirstAccess ==
    {"check_time", "check_exp", "hit_read", "compute", "store_time", "store",
     "get_time", "get_exp", "get_del", "get_read", "del_del"}
\* r has read or written the cache outside clean_expired_cache
Accessed(r) ==
    \/ pc[r] \in AfterFirstAccess
    \/ Returned(r) /\ resp[r].kind \in {"hit", "miss", "cached", "deleted", "health"}
    \/ Returned(r) /\ resp[r].status = 404

\* C20: a request that has read or written the cache has run the expiry
\* sweep first.
C20_SweepBeforeAccess ==
    \A r \in Threads : Accessed(r) => obs[r].sweep

\* the subscript cache[key] or the del cache[key] of request r found the key
\* absent
KeyAbsentAtAccess(r) == Returned(r) /\ resp[r].error = "KeyError"

\* C21: under every interleaving, no request reads cache[key] or deletes
\* cache[key] for a key that is absent at that step: a key found present is
\* still present when it is read, and a key collected as expired is still
\* present when it is deleted.
C21_NoAbsentKeyAccess ==
    \A r \in Threads : ~KeyAbsentAtAccess(r)

=============================================================================
